---- MODULE Spec2Model ----
(***************************************************************************)
(* clean_datasets.py: sample the routes of an OpenFlights extract and      *)
(* derive the airports, airlines, countries and planes the sample uses.    *)
(*                                                                         *)
(* A text cell is a sequence of one-character strings.  read_csv loads an  *)
(* empty field and the token \N as NaN, so no loaded cell is the empty     *)
(* string: NaN is the empty sequence.  A key cell is loaded as text and    *)
(* becomes an integer where the script casts it.  The passthrough columns  *)
(* (Codeshare, Stops, City, coordinates, ...) take part in no decision and *)
(* are left out of the rows.                                               *)
(***************************************************************************)
EXTENDS Integers, Sequences, FiniteSets, TLC

VARIABLES
    files,                \* the input files: each table, or absent
    args,                 \* the parsed command line: routes (sample size), seed
    routes, airports, airlines, planes, countries,
    routes_clean, sample_routes,
    airports_small, airlines_small,
    countries_small_out, planes_small_out,
    sample_routes_out, airports_small_out, airlines_small_out,
    disk,                 \* the output files written so far
    pc,                   \* the statement the script is at
    exc,                  \* the exception that ended the run, if any
    run,                  \* invocations started so far
    prev                  \* what the previous invocation left behind

env == <<files, args>>
loaded == <<routes, airports, airlines, planes, countries>>
derived == <<routes_clean, sample_routes, airports_small, airlines_small,
             countries_small_out, planes_small_out>>
sorted == <<sample_routes_out, airports_small_out, airlines_small_out>>
vars == <<files, args, routes, airports, airlines, planes, countries,
          routes_clean, sample_routes, airports_small, airlines_small,
          countries_small_out, planes_small_out,
          sample_routes_out, airports_small_out, airlines_small_out,
          disk, pc, exc, run, prev>>

(***************************************************************************)
(* Text cells.                                                             *)
(***************************************************************************)
NaN == <<>>

isna(c) == c = NaN

Digit == {"0", "1", "2", "3", "4", "5", "6", "7", "8", "9"}

DigitVal(c) ==
    CASE c = "0" -> 0 [] c = "1" -> 1 [] c = "2" -> 2 [] c = "3" -> 3
      [] c = "4" -> 4 [] c = "5" -> 5 [] c = "6" -> 6 [] c = "7" -> 7
      [] c = "8" -> 8 [] c = "9" -> 9

\* Code point of a character (the characters the inputs use).
Ord(c) ==
    CASE c = " " -> 32
      [] c \in Digit -> 48 + DigitVal(c)
      [] c = "A" -> 65 [] c = "B" -> 66 [] c = "C" -> 67
      [] c = "X" -> 88 [] c = "Y" -> 89 [] c = "Z" -> 90
      [] c = "a" -> 97 [] c = "b" -> 98 [] c = "x" -> 120

UpperChar(c) ==
    CASE c = "a" -> "A" [] c = "b" -> "B" [] c = "x" -> "X" [] OTHER -> c

\* str.upper()
upper(s) == [i \in DOMAIN s |-> UpperChar(s[i])]

\* Python's str < str: lexicographic on code points.
RECURSIVE StrLess(_, _)
StrLess(s, t) ==
    IF t = <<>> THEN FALSE
    ELSE IF s = <<>> THEN TRUE
    ELSE IF Ord(Head(s)) # Ord(Head(t)) THEN Ord(Head(s)) < Ord(Head(t))
    ELSE StrLess(Tail(s), Tail(t))

\* str.split(): the maximal runs of non-blank characters, in order.
RECURSIVE SplitFrom(_, _)
SplitFrom(s, cur) ==
    IF s = <<>> THEN (IF cur = <<>> THEN <<>> ELSE <<cur>>)
    ELSE IF Head(s) = " "
         THEN (IF cur = <<>> THEN <<>> ELSE <<cur>>) \o SplitFrom(Tail(s), <<>>)
         ELSE SplitFrom(Tail(s), Append(cur, Head(s)))

split(s) == SplitFrom(s, <<>>)

\* int(text) succeeds, and pd.to_numeric(text) is a number: a digit string.
IsIntLiteral(c) == c # NaN /\ \A i \in DOMAIN c : c[i] \in Digit

RECURSIVE ParseInt(_)
ParseInt(c) ==
    IF c = <<>> THEN 0
    ELSE 10 * ParseInt(SubSeq(c, 1, Len(c) - 1)) + DigitVal(c[Len(c)])

(***************************************************************************)
(* Tables: sequences of rows (records).                                    *)
(***************************************************************************)
Col(t, f) == {t[i][f] : i \in DOMAIN t}

\* An optional table: planes = None / planes_small_out = None, or a frame.
None == [some |-> FALSE, rows |-> <<>>]
Some(t) == [some |-> TRUE, rows |-> t]

\* DataFrame.dropna(subset=[f])
dropna(t, f) == LET Keep(r) == ~isna(r[f]) IN SelectSeq(t, Keep)

\* frame[frame[f].isin(ids)]
isin(t, f, ids) == LET Keep(r) == r[f] \in ids IN SelectSeq(t, Keep)

\* Series.astype(int) on a key column raises ValueError on a cell that is
\* not an integer literal.
astype_int_raises(t, f) == \E i \in DOMAIN t : ~IsIntLiteral(t[i][f])

astype_int(t, f) == [i \in DOMAIN t |-> [t[i] EXCEPT ![f] = ParseInt(@)]]

\* pd.to_numeric(errors='coerce') followed by dropna: the rows whose cell
\* is a number are kept, every other cell became NaN and its row is dropped.
to_numeric_dropna(t, f) == LET Keep(r) == IsIntLiteral(r[f]) IN SelectSeq(t, Keep)

\* DataFrame.sort_values: NaN last; rows with equal keys keep their order.
NaLastLess(a, b) ==
    IF isna(a) THEN FALSE ELSE IF isna(b) THEN TRUE ELSE StrLess(a, b)

\* less[i, j]: row i sorts strictly before row j.
StableSort(t, less) ==
    LET n == Len(t)
        Before(j, i) == less[j, i] \/ (~less[i, j] /\ j < i)
        Rank(i) == Cardinality({j \in 1..n : Before(j, i)}) + 1
    IN  [k \in 1..n |-> t[CHOOSE i \in 1..n : Rank(i) = k]]

(***************************************************************************)
(* Lines 78-87: clean routes.                                              *)
(***************************************************************************)
\* routes.dropna(subset=['SourceAirportID', 'DestAirportID'])
routes_dropna(t) == dropna(dropna(t, "SourceAirportID"), "DestAirportID")

\* Lines 81-82 raise ValueError.
clean_routes_raises(t) ==
    \/ astype_int_raises(routes_dropna(t), "SourceAirportID")
    \/ astype_int_raises(routes_dropna(t), "DestAirportID")

\* Lines 80-85 when nothing raised.
clean_routes(t) ==
    astype_int(
        to_numeric_dropna(
            astype_int(astype_int(routes_dropna(t), "SourceAirportID"),
                       "DestAirportID"),
            "AirlineID"),
        "AirlineID")

(***************************************************************************)
(* Lines 89-92: sample.  RandomState(seed) draws the positions without     *)
(* replacement; the stream is a function of the seed alone.  Here the seed *)
(* is decoded digit by digit into the position taken next, so the seeds    *)
(* 0, 1, 2, ... enumerate the possible orders.                             *)
(***************************************************************************)
min(a, b) == IF a < b THEN a ELSE b

RemoveAt(s, i) == SubSeq(s, 1, i - 1) \o SubSeq(s, i + 1, Len(s))

RECURSIVE Draw(_, _)
Draw(avail, seed) ==
    IF avail = <<>> THEN <<>>
    ELSE LET k == Len(avail)
             i == (seed % k) + 1
         IN  <<avail[i]>> \o Draw(RemoveAt(avail, i), seed \div k)

permutation(seed, n) == Draw([i \in 1..n |-> i], seed)

\* Variant: a negative n is taken as an empty sample.
sample_accepts_negative(n) == FALSE

\* DataFrame.sample raises ValueError on a negative n.
sample_raises(n) == n < 0

\* routes_clean.sample(n=n, random_state=seed): the rows at the first n
\* positions drawn, in the order drawn.
sample(t, n, seed) ==
    LET p == permutation(seed, Len(t)) IN [i \in 1..n |-> t[p[i]]]

(***************************************************************************)
(* Lines 94-137: related airports and airlines, referential integrity.     *)
(***************************************************************************)
airport_ids_of(t) == Col(t, "SourceAirportID") \cup Col(t, "DestAirportID")

airline_ids_of(t) == Col(t, "AirlineID")

\* Line 104 raises ValueError.
prepare_airports_raises(t) == astype_int_raises(dropna(t, "AirportID"), "AirportID")

\* Lines 103-104.
prepare_airports(t) == astype_int(dropna(t, "AirportID"), "AirportID")

\* Lines 106-109.
prepare_airlines(t) ==
    astype_int(to_numeric_dropna(dropna(t, "AirlineID"), "AirlineID"), "AirlineID")

\* Variant: the routes of a missing airline are kept.
filter_missing_airlines_skipped(sr, al_small) == sr

\* Lines 119-122: routes whose airline is missing are filtered out.
filter_missing_airlines(sr, al_small) ==
    IF airline_ids_of(sr) \ Col(al_small, "AirlineID") # {}
    THEN isin(sr, "AirlineID", Col(al_small, "AirlineID"))
    ELSE sr

\* Lines 124-130: routes with a missing airport are filtered out.
filter_missing_airports(sr0, sr, ap_small) ==
    IF airport_ids_of(sr0) \ Col(ap_small, "AirportID") # {}
    THEN isin(isin(sr, "SourceAirportID", Col(ap_small, "AirportID")),
              "DestAirportID", Col(ap_small, "AirportID"))
    ELSE sr

\* Lines 114-130: the sampled routes after the integrity filter.  Both
\* missing sets are computed from the sample before either filter runs.
verify_integrity(sr, ap_small, al_small) ==
    filter_missing_airports(sr, filter_missing_airlines(sr, al_small), ap_small)

\* Lines 133, 136.
tighten_airports(ap, sr) == isin(ap, "AirportID", airport_ids_of(sr))

\* Lines 134, 137.
tighten_airlines(al, sr) == isin(al, "AirlineID", airline_ids_of(sr))

(***************************************************************************)
(* Lines 146-177: countries used by the airports and airlines, and the     *)
(* narrowing of airports, airlines and routes to the canonical countries.  *)
(***************************************************************************)
\* set(frame['Country'].dropna().unique()) of both frames (150-152, 176)
used_countries_of(ap_small, al_small) ==
    (Col(ap_small, "Country") \cup Col(al_small, "Country")) \ {NaN}

\* Lines 153, 159: the names of the country rows that are used.
valid_country_names_of(ct, ap_small, al_small) ==
    Col(isin(ct, "Name", used_countries_of(ap_small, al_small)), "Name")

\* Lines 160-161.
restrict_to_countries(small, valid) == isin(small, "Country", valid)

\* Variant: line 168, the airline test, is missing.
drop_routes_airports_only(sr, ap_small, al_small) ==
    isin(isin(sr, "SourceAirportID", Col(ap_small, "AirportID")),
         "DestAirportID", Col(ap_small, "AirportID"))

\* Lines 163-169.
drop_routes_of_removed(sr, ap_small, al_small) ==
    isin(isin(isin(sr, "SourceAirportID", Col(ap_small, "AirportID")),
              "DestAirportID", Col(ap_small, "AirportID")),
         "AirlineID", Col(al_small, "AirlineID"))

\* Variant: line 173 without its country test.
retighten_airports_any_country(ap, sr, valid) ==
    isin(ap, "AirportID", airport_ids_of(sr))

\* Lines 171, 173.
retighten_airports(ap, sr, valid) ==
    isin(isin(ap, "AirportID", airport_ids_of(sr)), "Country", valid)

\* Lines 172, 174.
retighten_airlines(al, sr, valid) ==
    isin(isin(al, "AirlineID", airline_ids_of(sr)), "Country", valid)

CountryLess(a, b) == NaLastLess(a.Name, b.Name)

\* sort_values(by=['Name'])
sort_countries(t) == StableSort(t, [i \in DOMAIN t, j \in DOMAIN t |-> CountryLess(t[i], t[j])])

\* Variant: the countries found before the narrowing are kept (line 157).
final_countries_stale(ct, ap_small, al_small) ==
    sort_countries(isin(ct, "Name", used_countries_of(airports_small, airlines_small)))

\* Lines 176-177.
final_countries(ct, ap_small, al_small) ==
    sort_countries(isin(ct, "Name", used_countries_of(ap_small, al_small)))

(***************************************************************************)
(* Lines 179-190: planes used by the equipment of the final routes.        *)
(***************************************************************************)
\* Lines 182-186: split, explode, strip, upper, dropna, unique.
equip_set_of(sr) ==
    LET eq == dropna(sr, "Equipment")
    IN  UNION { {upper(split(eq[i].Equipment)[k]) :
                    k \in DOMAIN split(eq[i].Equipment)} : i \in DOMAIN eq }

PlaneLess(a, b) ==
    IF a.IATA # b.IATA THEN NaLastLess(a.IATA, b.IATA)
    ELSE IF a.ICAO # b.ICAO THEN NaLastLess(a.ICAO, b.ICAO)
    ELSE NaLastLess(a.Name, b.Name)

\* sort_values(by=['IATA', 'ICAO', 'Name'])
sort_planes(t) == StableSort(t, [i \in DOMAIN t, j \in DOMAIN t |-> PlaneLess(t[i], t[j])])

\* Variant: only the IATA code is matched.
select_planes_iata_only(pl, codes) ==
    LET Keep(r) == r.IATA \in codes IN SelectSeq(pl, Keep)

\* Lines 187-189.
select_planes(pl, codes) ==
    LET Keep(r) == r.IATA \in codes \/ r.ICAO \in codes IN SelectSeq(pl, Keep)

(***************************************************************************)
(* Lines 197-202: sorted outputs.                                          *)
(***************************************************************************)
RouteLess(a, b) ==
    IF a.AirlineID # b.AirlineID THEN a.AirlineID < b.AirlineID
    ELSE IF a.SourceAirportID # b.SourceAirportID
         THEN a.SourceAirportID < b.SourceAirportID
    ELSE IF a.DestAirportID # b.DestAirportID
         THEN a.DestAirportID < b.DestAirportID
    ELSE IF a.Airline # b.Airline THEN NaLastLess(a.Airline, b.Airline)
    ELSE IF a.SourceAirport # b.SourceAirport
         THEN NaLastLess(a.SourceAirport, b.SourceAirport)
    ELSE NaLastLess(a.DestAirport, b.DestAirport)

sort_routes(t) == StableSort(t, [i \in DOMAIN t, j \in DOMAIN t |-> RouteLess(t[i], t[j])])

AirportLess(a, b) == a.AirportID < b.AirportID

sort_airports(t) == StableSort(t, [i \in DOMAIN t, j \in DOMAIN t |-> AirportLess(t[i], t[j])])

AirlineLess(a, b) == a.AirlineID < b.AirlineID

\* Variant: the airlines are written in the order they were filtered in.
sort_airlines_skipped(t) == t

sort_airlines(t) == StableSort(t, [i \in DOMAIN t, j \in DOMAIN t |-> AirlineLess(t[i], t[j])])

(***************************************************************************)
(* The script, statement by statement.                                     *)
(***************************************************************************)
OutFiles == {"routes", "airports", "airlines", "planes", "countries"}

EmptyDisk == [f \in OutFiles |-> None]

NoFiles ==
    [routes |-> <<>>, airports |-> <<>>, airlines |-> <<>>,
     planes |-> None, countries |-> None]

NoPrev == [pc |-> "none", exc |-> "", disk |-> EmptyDisk, files |-> NoFiles]

\* The interpreter before the first statement.
Fresh ==
    /\ routes = <<>> /\ airports = <<>> /\ airlines = <<>>
    /\ planes = None /\ countries = None
    /\ routes_clean = <<>> /\ sample_routes = <<>>
    /\ airports_small = <<>> /\ airlines_small = <<>>
    /\ countries_small_out = None /\ planes_small_out = None
    /\ sample_routes_out = <<>> /\ airports_small_out = <<>>
    /\ airlines_small_out = <<>>
    /\ disk = EmptyDisk
    /\ pc = "load"
    /\ exc = ""

\* An uncaught exception ends the process.
Raise(e) == pc' = "aborted" /\ exc' = e

\* Lines 39-76: read_csv of the three required and the two optional files.
Load ==
    /\ pc = "load"
    /\ routes' = files.routes
    /\ airports' = files.airports
    /\ airlines' = files.airlines
    /\ planes' = files.planes
    /\ countries' = files.countries
    /\ pc' = "clean"
    /\ UNCHANGED <<env, derived, sorted, disk, exc, run, prev>>

\* Lines 78-87.
CleanRoutes ==
    /\ pc = "clean"
    /\ IF clean_routes_raises(routes)
       THEN Raise("ValueError: invalid literal for int()") /\ UNCHANGED routes_clean
       ELSE routes_clean' = clean_routes(routes) /\ pc' = "sample" /\ UNCHANGED exc
    /\ UNCHANGED <<env, loaded, sample_routes, airports_small, airlines_small,
                   countries_small_out, planes_small_out, sorted, disk, run, prev>>

\* Lines 89-92.
Sample ==
    /\ pc = "sample"
    /\ LET sample_n == min(args.routes, Len(routes_clean))
       IN  IF sample_raises(sample_n)
           THEN Raise("ValueError: A negative number of rows requested")
                /\ UNCHANGED sample_routes
           ELSE /\ sample_routes' = sample(routes_clean, sample_n, args.seed)
                /\ pc' = "extract"
                /\ UNCHANGED exc
    /\ UNCHANGED <<env, loaded, routes_clean, airports_small, airlines_small,
                   countries_small_out, planes_small_out, sorted, disk, run, prev>>

\* Lines 94-112.
Extract ==
    /\ pc = "extract"
    /\ IF prepare_airports_raises(airports)
       THEN /\ Raise("ValueError: invalid literal for int()")
            /\ UNCHANGED <<airports, airlines, airports_small, airlines_small>>
       ELSE /\ airports' = prepare_airports(airports)
            /\ airlines' = prepare_airlines(airlines)
            /\ airports_small' =
                   isin(airports', "AirportID", airport_ids_of(sample_routes))
            /\ airlines_small' =
                   isin(airlines', "AirlineID", airline_ids_of(sample_routes))
            /\ pc' = "verify"
            /\ UNCHANGED exc
    /\ UNCHANGED <<env, routes, planes, countries, routes_clean, sample_routes,
                   countries_small_out, planes_small_out, sorted, disk, run, prev>>

\* Lines 114-142.
Verify ==
    /\ pc = "verify"
    /\ sample_routes' = verify_integrity(sample_routes, airports_small, airlines_small)
    /\ airports_small' = tighten_airports(airports, sample_routes')
    /\ airlines_small' = tighten_airlines(airlines, sample_routes')
    /\ pc' = "countries"
    /\ UNCHANGED <<env, loaded, routes_clean, countries_small_out,
                   planes_small_out, sorted, disk, exc, run, prev>>

\* Lines 144-177.
DeriveCountries ==
    /\ pc = "countries"
    /\ IF countries.some
       THEN LET valid == valid_country_names_of(countries.rows, airports_small,
                                                airlines_small)
                ap1 == restrict_to_countries(airports_small, valid)
                al1 == restrict_to_countries(airlines_small, valid)
                sr == drop_routes_of_removed(sample_routes, ap1, al1)
                ap2 == retighten_airports(airports, sr, valid)
                al2 == retighten_airlines(airlines, sr, valid)
            IN  /\ sample_routes' = sr
                /\ airports_small' = ap2
                /\ airlines_small' = al2
                /\ countries_small_out' =
                       Some(final_countries(countries.rows, ap2, al2))
       ELSE UNCHANGED <<sample_routes, airports_small, airlines_small,
                        countries_small_out>>
    /\ pc' = "planes"
    /\ UNCHANGED <<env, loaded, routes_clean, planes_small_out, sorted, disk,
                   exc, run, prev>>

\* Lines 179-192.  The last print of the branch takes len(countries_small_out),
\* a TypeError when countries_small_out is None.
DerivePlanes ==
    /\ pc = "planes"
    /\ IF planes.some
       THEN /\ planes_small_out' =
                   Some(sort_planes(select_planes(planes.rows,
                                                  equip_set_of(sample_routes))))
            /\ IF countries_small_out.some
               THEN pc' = "sort" /\ UNCHANGED exc
               ELSE Raise("TypeError: object of type 'NoneType' has no len()")
       ELSE pc' = "sort" /\ UNCHANGED <<planes_small_out, exc>>
    /\ UNCHANGED <<env, loaded, routes_clean, sample_routes, airports_small,
                   airlines_small, countries_small_out, sorted, disk, run, prev>>

\* Lines 194-202.
SortOutputs ==
    /\ pc = "sort"
    /\ sample_routes_out' = sort_routes(sample_routes)
    /\ airports_small_out' = sort_airports(airports_small)
    /\ airlines_small_out' = sort_airlines(airlines_small)
    /\ pc' = "write_routes"
    /\ UNCHANGED <<env, loaded, derived, disk, exc, run, prev>>

\* Line 204.
WriteRoutes ==
    /\ pc = "write_routes"
    /\ disk' = [disk EXCEPT !.routes = Some(sample_routes_out)]
    /\ pc' = "write_airports"
    /\ UNCHANGED <<env, loaded, derived, sorted, exc, run, prev>>

\* Line 205.
WriteAirports ==
    /\ pc = "write_airports"
    /\ disk' = [disk EXCEPT !.airports = Some(airports_small_out)]
    /\ pc' = "write_airlines"
    /\ UNCHANGED <<env, loaded, derived, sorted, exc, run, prev>>

\* Line 206.
WriteAirlines ==
    /\ pc = "write_airlines"
    /\ disk' = [disk EXCEPT !.airlines = Some(airlines_small_out)]
    /\ pc' = "write_optional"
    /\ UNCHANGED <<env, loaded, derived, sorted, exc, run, prev>>

\* Lines 208-245: the optional outputs; what follows only prints.
WriteOptional ==
    /\ pc = "write_optional"
    /\ disk' = [disk EXCEPT
                   !.planes = planes_small_out,
                   !.countries = countries_small_out]
    /\ pc' = "done"
    /\ UNCHANGED <<env, loaded, derived, sorted, exc, run, prev>>

Step ==
    \/ Load
    \/ CleanRoutes
    \/ Sample
    \/ Extract
    \/ Verify
    \/ DeriveCountries
    \/ DerivePlanes
    \/ SortOutputs
    \/ WriteRoutes
    \/ WriteAirports
    \/ WriteAirlines
    \/ WriteOptional

(***************************************************************************)
(* Inputs.  Rows as read_csv loads them: every cell text or NaN.           *)
(***************************************************************************)
MaxRoutes == 2
MaxRows == 2
MaxRuns == 2

Route(al, alid, sa, said, da, daid, eq) ==
    [Airline |-> al, AirlineID |-> alid,
     SourceAirport |-> sa, SourceAirportID |-> said,
     DestAirport |-> da, DestAirportID |-> daid, Equipment |-> eq]

Airport(id, country) == [AirportID |-> id, Country |-> country]

Airline(id, country) == [AirlineID |-> id, Country |-> country]

Plane(name, iata, icao) == [Name |-> name, IATA |-> iata, ICAO |-> icao]

Country(name) == [Name |-> name]

RECURSIVE SetToSeq(_)
SetToSeq(S) ==
    IF S = {} THEN <<>>
    ELSE LET x == CHOOSE y \in S : TRUE IN <<x>> \o SetToSeq(S \ {x})

\* The tables of at most n distinct rows of a pool.
TablesOf(pool, n) == {SetToSeq(T) : T \in {U \in SUBSET pool : Cardinality(U) <= n}}

\* The tables of at most n rows of a pool, in every order, rows repeated.
SeqsUpTo(pool, n) == UNION {[1..k -> pool] : k \in 0..n}

\* Keys that resolve, keys that do not, countries that are canonical (X, Y),
\* unknown (Z) or missing, several rows under one key.
ClosureFiles ==
    [routes : TablesOf({Route(<<"A">>, al, <<"A">>, s, <<"B">>, d, NaN) :
                            al \in {<<"1">>, <<"2">>},
                            s \in {<<"1">>, <<"2">>},
                            d \in {<<"1">>, <<"2">>}}, MaxRoutes),
     airports : TablesOf({Airport(<<"1">>, <<"X">>), Airport(<<"1">>, <<"Z">>),
                          Airport(<<"2">>, <<"Y">>), Airport(<<"2">>, NaN),
                          Airport(<<"2">>, <<"X">>)}, MaxRows),
     airlines : TablesOf({Airline(<<"1">>, <<"X">>), Airline(<<"1">>, NaN),
                          Airline(<<"2">>, <<"Y">>), Airline(<<"2">>, <<"Z">>)},
                         MaxRows),
     planes : {None},
     countries : {None} \cup
                 {Some(t) : t \in {<<>>, <<Country(<<"X">>)>>,
                                   <<Country(<<"Y">>), Country(<<"X">>)>>,
                                   <<Country(<<"X">>), Country(NaN),
                                     Country(<<"X">>)>>}}]

\* Key cells that are missing (NaN) or not a number ("x").
CoerceFiles ==
    [routes : TablesOf({Route(<<"A">>, <<"1">>, <<"A">>, <<"1">>, <<"B">>, <<"1">>, NaN),
                        Route(<<"A">>, NaN, <<"A">>, <<"1">>, <<"B">>, <<"1">>, NaN),
                        Route(<<"A">>, <<"x">>, <<"A">>, <<"1">>, <<"B">>, <<"1">>, NaN),
                        Route(<<"A">>, <<"1">>, <<"A">>, NaN, <<"B">>, <<"1">>, NaN),
                        Route(<<"A">>, <<"1">>, <<"A">>, <<"x">>, <<"B">>, <<"1">>, NaN),
                        Route(<<"A">>, <<"1">>, <<"A">>, <<"1">>, <<"B">>, NaN, NaN),
                        Route(<<"A">>, <<"1">>, <<"A">>, <<"1">>, <<"B">>, <<"x">>, NaN)},
                       MaxRoutes),
     airports : TablesOf({Airport(<<"1">>, <<"X">>), Airport(NaN, <<"X">>),
                          Airport(<<"x">>, <<"X">>)}, MaxRows),
     airlines : TablesOf({Airline(<<"1">>, <<"X">>), Airline(NaN, <<"X">>),
                          Airline(<<"x">>, <<"X">>)}, MaxRows),
     planes : {None, Some(<<>>)},
     countries : {None, Some(<<Country(<<"X">>)>>)}]

PlaneFiles ==
    {None,
     Some(<<>>),
     Some(<<Plane(<<"B">>, <<"B">>, NaN), Plane(<<"A">>, NaN, <<"A">>)>>),
     Some(<<Plane(<<"C">>, <<"a">>, <<"C">>), Plane(<<"B">>, <<"B">>, NaN),
            Plane(<<"A">>, <<"B">>, NaN)>>)}

\* Equipment lists, planes, rows that tie on the sort keys, tables in any order.
RerunFiles ==
    [routes : SeqsUpTo({Route(<<"A">>, <<"1">>, <<"A">>, <<"1">>, <<"B">>, <<"1">>, NaN),
                        Route(<<"B">>, <<"1">>, <<"A">>, <<"1">>, <<"B">>, <<"1">>,
                              <<"a", " ", "B">>),
                        Route(NaN, <<"1">>, <<"A">>, <<"1">>, <<"B">>, <<"1">>,
                              <<" ", "B", " ">>),
                        Route(<<"A">>, <<"2">>, <<"A">>, <<"1">>, <<"B">>, <<"1">>,
                              <<"A">>)}, MaxRoutes),
     airports : {<<Airport(<<"1">>, <<"X">>)>>},
     airlines : {<<Airline(<<"2">>, <<"Y">>), Airline(<<"1">>, <<"X">>)>>,
                 <<Airline(<<"1">>, <<"X">>)>>,
                 <<Airline(<<"2">>, <<"Z">>), Airline(<<"1">>, <<"X">>)>>},
     planes : PlaneFiles,
     countries : {None, Some(<<Country(<<"Y">>), Country(<<"X">>)>>)}]

\* --routes and --seed; 350 is the default sample size.
InitWith(F, A) ==
    /\ files \in F
    /\ args \in A
    /\ Fresh
    /\ run = 1
    /\ prev = NoPrev

Init ==
    \/ InitWith(ClosureFiles, [routes : {350}, seed : {0}])
    \/ InitWith(CoerceFiles, [routes : {0 - 1, 1, 350}, seed : {0}])

Next == Step

Spec == Init /\ [][Next]_vars

\* A further invocation on the same inputs, or with another planes file.
Rerun ==
    /\ pc \in {"done", "aborted"}
    /\ run < MaxRuns
    /\ run' = run + 1
    /\ prev' = [pc |-> pc, exc |-> exc, disk |-> disk, files |-> files]
    /\ \E p \in PlaneFiles : files' = [files EXCEPT !.planes = p]
    /\ UNCHANGED args
    /\ routes' = <<>> /\ airports' = <<>> /\ airlines' = <<>>
    /\ planes' = None /\ countries' = None
    /\ routes_clean' = <<>> /\ sample_routes' = <<>>
    /\ airports_small' = <<>> /\ airlines_small' = <<>>
    /\ countries_small_out' = None /\ planes_small_out' = None
    /\ sample_routes_out' = <<>> /\ airports_small_out' = <<>>
    /\ airlines_small_out' = <<>>
    /\ disk' = EmptyDisk
    /\ pc' = "load"
    /\ exc' = ""

InitRerun == InitWith(RerunFiles, [routes : {0 - 1, 1, 350}, seed : {0, 1}])

NextRerun ==
    \/ Step
    \/ Rerun

SpecRerun == InitRerun /\ [][NextRerun]_vars

(***************************************************************************)
(* Properties.                                                             *)
(***************************************************************************)
Terminated == pc \in {"done", "aborted"}

Written(f) == disk[f].rows

Count(t, r) == Cardinality({i \in DOMAIN t : t[i] = r})

\* The same rows, each as many times, in whatever order.
SameRows(s, t) ==
    /\ Len(s) = Len(t)
    /\ \A i \in DOMAIN s : Count(s, s[i]) = Count(t, s[i])

\* The routes line 92 sampled, recomputed from the cleaned routes.
Sampled == sample(routes_clean, min(args.routes, Len(routes_clean)), args.seed)

\* C1: on successful termination the airline ids of the output routes are
\* exactly the keys of the output airlines, and the source and destination
\* airport ids of the output routes are exactly the keys of the output
\* airports.
C1_ClosureInvariant ==
    pc = "done" =>
        /\ Col(Written("routes"), "AirlineID") = Col(Written("airlines"), "AirlineID")
        /\ Col(Written("routes"), "SourceAirportID")
               \cup Col(Written("routes"), "DestAirportID")
           = Col(Written("airports"), "AirportID")

\* Routes were written, some sampled route was dropped, and some airport and
\* some airline of the input were left out.
C1_Witness ==
    /\ pc = "done"
    /\ countries.some
    /\ Written("routes") # <<>>
    /\ Len(Written("routes")) < Len(Sampled)
    /\ Len(Written("airports")) < Len(airports)
    /\ Len(Written("airlines")) < Len(airlines)

\* C2: with a Country table, on termination every country of an output
\* airport or airline is the name of an output country, and every output
\* country is the country of some output airport or airline.
C2_CountryConsistency ==
    (pc = "done" /\ countries.some) =>
        LET used == Col(Written("airports"), "Country")
                        \cup Col(Written("airlines"), "Country")
        IN  /\ disk.countries.some
            /\ used = Col(Written("countries"), "Name")

\* A canonical country of an airport that a sampled route references is not
\* written, because the route that referenced the airport was dropped.
C2_Witness ==
    /\ pc = "done"
    /\ countries.some
    /\ Written("routes") # <<>>
    /\ \E i \in DOMAIN airports :
          /\ airports[i].AirportID \in airport_ids_of(Sampled)
          /\ ~isna(airports[i].Country)
          /\ airports[i].Country \in Col(countries.rows, "Name")
          /\ airports[i].Country \notin Col(Written("countries"), "Name")

\* C4: no key cell that is null or not an integer puts the run in an error
\* state: the cast of a key column never raises.
C4_CoercionNeverFails == exc # "ValueError: invalid literal for int()"

UniqueKey(t, f) == \A i, j \in DOMAIN t : t[i][f] = t[j][f] => i = j

\* C5: no two rows of output Airports share an AirportID, no two rows of
\* output Airlines share an AirlineID, no two rows of output Countries share
\* a Name.
C5_UniqueKeys ==
    pc = "done" =>
        /\ UniqueKey(Written("airports"), "AirportID")
        /\ UniqueKey(Written("airlines"), "AirlineID")
        /\ UniqueKey(Written("countries"), "Name")

\* C7: a run that aborts has written nothing, a run that completes has
\* written Routes, Airports and Airlines, nothing fails once the first
\* output is written, and a negative sample size never gets past sampling.
C7_NoPartialOutput ==
    /\ pc = "aborted" => disk = EmptyDisk
    /\ pc = "done" =>
           disk.routes.some /\ disk.airports.some /\ disk.airlines.some
    /\ disk # EmptyDisk =>
           pc \in {"write_airports", "write_airlines", "write_optional", "done"}
    /\ args.routes < 0 =>
           pc \in {"load", "clean", "sample", "aborted"} /\ disk = EmptyDisk

\* The sampling itself aborted a run whose cleaned routes were not empty.
C7_Witness ==
    /\ pc = "aborted"
    /\ args.routes < 0
    /\ exc = "ValueError: A negative number of rows requested"
    /\ routes_clean # <<>>
    /\ disk = EmptyDisk

\* One pass of narrowing steps 1-4 over the four tables.
NarrowingPass(T) ==
    LET ap1 == isin(T.airports, "AirportID",
                    Col(T.routes, "SourceAirportID")
                        \cup Col(T.routes, "DestAirportID"))
        al1 == isin(T.airlines, "AirlineID", Col(T.routes, "AirlineID"))
        used == (Col(ap1, "Country") \cup Col(al1, "Country")) \ {NaN}
        ct1 == IF T.countries.some
               THEN Some(isin(T.countries.rows, "Name", used))
               ELSE None
        ap2 == IF T.countries.some
               THEN isin(ap1, "Country", Col(ct1.rows, "Name"))
               ELSE ap1
        al2 == IF T.countries.some
               THEN isin(al1, "Country", Col(ct1.rows, "Name"))
               ELSE al1
        KeepRoute(r) ==
            /\ r.SourceAirportID \in Col(ap2, "AirportID")
            /\ r.DestAirportID \in Col(ap2, "AirportID")
            /\ r.AirlineID \in Col(al2, "AirlineID")
    IN  [routes |-> SelectSeq(T.routes, KeepRoute),
         airports |-> ap2, airlines |-> al2, countries |-> ct1]

RECURSIVE NarrowToFixpoint(_)
NarrowToFixpoint(T) ==
    IF NarrowingPass(T) = T THEN T ELSE NarrowToFixpoint(NarrowingPass(T))

OutputTables ==
    [routes |-> Written("routes"), airports |-> Written("airports"),
     airlines |-> Written("airlines"), countries |-> disk.countries]

\* C9: the written Route, Airport, Airline and Country tables hold the rows
\* that looping the narrowing pass to its fixpoint leaves, starting from the
\* sampled routes and the coerced tables; and one more pass over the written
\* tables changes none of them.
C9_BoundedPassesReachFixpoint ==
    pc = "done" =>
        LET F == NarrowToFixpoint([routes |-> Sampled, airports |-> airports,
                                   airlines |-> airlines,
                                   countries |-> countries])
        IN  /\ SameRows(F.routes, Written("routes"))
            /\ SameRows(F.airports, Written("airports"))
            /\ SameRows(F.airlines, Written("airlines"))
            /\ F.countries.some = disk.countries.some
            /\ SameRows(F.countries.rows, Written("countries"))
            /\ NarrowingPass(OutputTables) = OutputTables

\* The loop needs a second pass that still removes rows: the first pass
\* dropped a route and left an airport or airline unreferenced.
C9_Witness ==
    /\ pc = "done"
    /\ countries.some
    /\ Written("routes") # <<>>
    /\ LET T0 == [routes |-> Sampled, airports |-> airports,
                  airlines |-> airlines, countries |-> countries]
       IN  /\ NarrowingPass(T0) # T0
           /\ NarrowingPass(NarrowingPass(T0)) # NarrowingPass(T0)

\* A row of table t under key id whose country is a name of the Country table.
ResolvesWithCountry(t, f, id) ==
    \E i \in DOMAIN t :
        /\ t[i][f] = id
        /\ ~isna(t[i].Country)
        /\ \E k \in DOMAIN countries.rows : countries.rows[k].Name = t[i].Country

Resolves(t, f, id) == \E i \in DOMAIN t : t[i][f] = id

ExpectedRoutes ==
    LET Keep(r) ==
            IF countries.some
            THEN /\ ResolvesWithCountry(airlines, "AirlineID", r.AirlineID)
                 /\ ResolvesWithCountry(airports, "AirportID", r.SourceAirportID)
                 /\ ResolvesWithCountry(airports, "AirportID", r.DestAirportID)
            ELSE /\ Resolves(airlines, "AirlineID", r.AirlineID)
                 /\ Resolves(airports, "AirportID", r.SourceAirportID)
                 /\ Resolves(airports, "AirportID", r.DestAirportID)
    IN  SelectSeq(Sampled, Keep)

\* C10: with a Country table the written routes are exactly the sampled
\* routes whose airline, source airport and destination airport each have a
\* coerced row whose country is the name of a Country row, and no written
\* airport or airline has a null country; without a Country table they are
\* exactly the sampled routes whose three references each have a coerced row.
C10_RoutesResolveThroughCountries ==
    pc = "done" =>
        /\ SameRows(ExpectedRoutes, Written("routes"))
        /\ countries.some =>
               /\ NaN \notin Col(Written("airports"), "Country")
               /\ NaN \notin Col(Written("airlines"), "Country")

\* A sampled route is left out only because the one row of its airline (or
\* of an airport) has a null or unknown country, while another is written.
C10_Witness ==
    /\ pc = "done"
    /\ countries.some
    /\ Written("routes") # <<>>
    /\ \E i \in DOMAIN Sampled :
          /\ Resolves(airlines, "AirlineID", Sampled[i].AirlineID)
          /\ Resolves(airports, "AirportID", Sampled[i].SourceAirportID)
          /\ Resolves(airports, "AirportID", Sampled[i].DestAirportID)
          /\ Count(Written("routes"), Sampled[i]) = 0
          /\ \E k \in DOMAIN airlines :
                airlines[k].AirlineID = Sampled[i].AirlineID
                    /\ isna(airlines[k].Country)

\* The key cells of the input are all integers and the sample size is
\* not negative: nothing but an absent optional file is unusual.
WellFormedInput ==
    /\ args.routes >= 0
    /\ ~clean_routes_raises(files.routes)
    /\ ~prepare_airports_raises(files.airports)

\* C3: whichever of the Plane and Country files are absent, a run on
\* well-formed input completes and writes Routes, Airports and Airlines, an
\* optional output is written exactly when its file is present, and the
\* three required outputs are those of the run that differed only in its
\* Plane file.
C3_OptionalAbsenceNotFatal ==
    /\ (Terminated /\ WellFormedInput) =>
           /\ pc = "done"
           /\ disk.routes.some /\ disk.airports.some /\ disk.airlines.some
           /\ disk.planes.some = files.planes.some
           /\ disk.countries.some = files.countries.some
    /\ (run > 1 /\ Terminated) =>
           /\ disk.routes = prev.disk.routes
           /\ disk.airports = prev.disk.airports
           /\ disk.airlines = prev.disk.airlines

\* The upper-cased, whitespace-split equipment tokens of a route table.
EquipmentTokens(rt) ==
    {upper(tok) : tok \in UNION {{split(rt[i].Equipment)[k] :
                                     k \in DOMAIN split(rt[i].Equipment)} :
                                 i \in DOMAIN rt}}

ExpectedPlanes ==
    LET codes == EquipmentTokens(Written("routes"))
        Keep(r) == r.IATA \in codes \/ r.ICAO \in codes
    IN  SelectSeq(files.planes.rows, Keep)

\* C6: with a Plane table the written planes are exactly the Plane rows
\* whose IATA or ICAO code is an upper-cased equipment token of the written
\* routes; and two runs that differ only in the content of the Plane table
\* leave the same Routes output.
C6_PlanesDerivedNoFeedback ==
    /\ (pc = "done" /\ files.planes.some) =>
           /\ disk.planes.some
           /\ SameRows(ExpectedPlanes, Written("planes"))
    /\ (run > 1 /\ Terminated /\ files.planes.some /\ prev.files.planes.some) =>
           disk.routes = prev.disk.routes

\* Two completed runs on different Plane tables: this one selected some but
\* not all of its planes, the planes written differ, the routes do not.
C6_Witness ==
    /\ run > 1
    /\ pc = "done"
    /\ files.planes.some /\ prev.files.planes.some
    /\ files.planes # prev.files.planes
    /\ Written("routes") # <<>>
    /\ Written("planes") # <<>>
    /\ Len(Written("planes")) < Len(files.planes.rows)
    /\ disk.planes # prev.disk.planes

IsSorted(t, Less(_, _)) == \A i, j \in DOMAIN t : i < j => ~Less(t[j], t[i])

====
